---- MODULE Spec2Model ----
(***************************************************************************)
(* Model of the constructor of the Artificial Image Simulator of the       *)
(* SPARC4 CCD cameras, in its two revisions:                               *)
(*   "new"  Artificial_Image_Simulator   (src/code/AIS/AIS.py)             *)
(*   "old"  Artificial_Images_Simulator  (src/AIS/AIS.py)                  *)
(* A behaviour is a series of constructor calls.  Each call runs the       *)
(* statements of __init__ in program order, one action per statement; pc   *)
(* names the statement that runs next.  A raise ends the call.  On a       *)
(* constructed object the caller calls its methods; ret is what the last   *)
(* method call returned, effects the calls it made to the collaborators    *)
(* and the files it wrote.  kept is a second object that the caller holds, *)
(* and chc a channel that the caller has built directly from the CHC       *)
(* package.                                                                *)
(***************************************************************************)
EXTENDS Integers, Sequences, FiniteSets, TLC

VARIABLES rev, call, pc, self, err, lookups, dict, ret, effects, kept, chc

vars == <<rev, call, pc, self, err, lookups, dict, ret, effects, kept, chc>>

(***************************************************************************)
(* Python values.  Numbers are held in millionths (1e-5 is 10), so that    *)
(* 0.1, 1.5 and 1e-5 are exact.  s holds the characters of a str, or the   *)
(* name of a type object.                                                  *)
(***************************************************************************)
U == 1000 * 1000

PyInt(i) == [ty |-> "int", n |-> i * U, s |-> <<>>]
PyFloat(micro) == [ty |-> "float", n |-> micro, s |-> <<>>]
PyString(chars) == [ty |-> "str", n |-> 0, s |-> chars]
TypeObj(name) == [ty |-> "type", n |-> 0, s |-> <<name>>]
None == [ty |-> "NoneType", n |-> 0, s |-> <<>>]

IsNum(a) == a.ty \in {"int", "float"}

\* a == b: numbers compare by value across int and float, anything else by identity
PyEq(a, b) == IF IsNum(a) /\ IsNum(b) THEN a.n = b.n ELSE a = b

\* a in [l1, l2, ...]
PyIn(a, list) == \E i \in 1..Len(list) : PyEq(a, list[i])

\* type(a) in [int, float]
TypeIsNumber(a) == a.ty \in {"int", "float"}

Range(f) == {f[i] : i \in DOMAIN f}

(***************************************************************************)
(* str() of a number, as Python prints it: an int in decimal; a float in   *)
(* positional notation with at least one fractional digit, and in          *)
(* scientific notation below 1e-4.                                         *)
(***************************************************************************)
RECURSIVE Digits(_, _)
Digits(f, k) == IF k = 0 THEN "" ELSE Digits(f \div 10, k - 1) \o ToString(f % 10)

RECURSIVE StripFrac(_, _)
StripFrac(f, k) ==
    IF k > 1 /\ f % 10 = 0 THEN StripFrac(f \div 10, k - 1) ELSE Digits(f, k)

AbsStr(m) ==
    IF m = 0 \/ m >= 100
    THEN ToString(m \div U) \o "." \o StripFrac(m % U, 6)
    ELSE IF m < 10 THEN ToString(m) \o "e-06"
    ELSE IF m % 10 = 0 THEN ToString(m \div 10) \o "e-05"
    ELSE ToString(m \div 10) \o "." \o ToString(m % 10) \o "e-05"

RECURSIVE Join(_)
Join(chars) == IF chars = <<>> THEN "" ELSE Head(chars) \o Join(Tail(chars))

PyStr(a) ==
    CASE a.ty = "int" -> ToString(a.n \div U)
      [] a.ty = "float" -> IF a.n < 0 THEN "-" \o AbsStr(0 - a.n) ELSE AbsStr(a.n)
      [] a.ty = "str" -> Join(a.s)
      [] a.ty = "type" -> "<class '" \o Join(a.s) \o "'>"
      [] OTHER -> "None"

(***************************************************************************)
(* Exceptions.  at names the check that raised.                            *)
(***************************************************************************)
NoError == [cls |-> "none", at |-> "none"]
Raise(cls, at) == [cls |-> cls, at |-> at]

\* what a method call gave back: no call yet, a value, or an exception
NoReturn == [of |-> "none", arg |-> None, value |-> None, raised |-> NoError]
ReturnedFor(method, arg, value) ==
    [of |-> method, arg |-> arg, value |-> value, raised |-> NoError]
Returned(method, value) == ReturnedFor(method, None, value)
Raised(method, e) == [of |-> method, arg |-> None, value |-> None, raised |-> e]

(***************************************************************************)
(* The operation mode is a dict: keys in insertion order, and their values.*)
(***************************************************************************)
HasKey(m, k) == k \in DOMAIN m.val

\* list.sort() sorts in place and returns None
ListSort(list) == None

\* the first error of a series of checks, in program order
FirstError(checks) ==
    IF \E i \in 1..Len(checks) : checks[i] # NoError
    THEN checks[CHOOSE i \in 1..Len(checks) :
                    /\ checks[i] # NoError
                    /\ \A j \in 1..(i - 1) : checks[j] = NoError]
    ELSE NoError

NewReads == <<"em_mode", "em_gain", "hss", "preamp", "binn", "t_exp", "ccd_temp">>
NewKeywords == <<"binn", "ccd_temp", "em_gain", "em_mode", "hss", "preamp", "t_exp">>
OldKeywords == <<"em_mode", "em_gain", "preamp", "hss", "bin", "t_exp", "ccd_temp">>

\* the subscripts at the head of the method raise KeyError on an absent key;
\* the comparison of the two sort() results compares None with None
CheckKeysNew(m) ==
    IF \E i \in 1..Len(NewReads) : ~HasKey(m, NewReads[i])
    THEN Raise("KeyError", "keys_missing")
    ELSE IF \E i \in 1..Len(m.keys) : m.keys[i] \notin Range(NewKeywords)
    THEN Raise("ValueError", "keys_extra")
    ELSE IF ListSort(m.keys) # ListSort(NewKeywords)
    THEN Raise("ValueError", "keys_missing")
    ELSE NoError

\* the comparison is between lists, so it is sensitive to the insertion order
CheckKeysOld(m) ==
    IF \E i \in 1..Len(m.keys) : m.keys[i] \notin Range(OldKeywords)
    THEN Raise("ValueError", "keys_extra")
    ELSE IF m.keys # OldKeywords
    THEN Raise("ValueError", "keys_missing")
    ELSE NoError

CheckEmMode(em_mode) ==
    IF ~PyIn(em_mode, <<PyInt(0), PyInt(1)>>)
    THEN Raise("ValueError", "em_mode") ELSE NoError

\* a variant without the branch of the conventional mode
CheckEmGainNewAnyMode(em_mode, em_gain) ==
    IF ~PyIn(em_gain, <<TypeObj("float"), TypeObj("int")>>) /\ ~PyEq(em_mode, PyInt(0))
    THEN Raise("ValueError", "em_gain")
    ELSE NoError

\* "em_gain not in [float, int]" looks the value up in a list of two type objects
CheckEmGainNew(em_mode, em_gain) ==
    IF PyEq(em_mode, PyInt(0))
    THEN IF ~PyEq(em_gain, PyInt(1)) THEN Raise("ValueError", "em_gain") ELSE NoError
    ELSE IF ~PyIn(em_gain, <<TypeObj("float"), TypeObj("int")>>)
    THEN Raise("ValueError", "em_gain")
    ELSE IF ~IsNum(em_gain) THEN Raise("TypeError", "em_gain")
    ELSE IF em_gain.n < 2 * U \/ em_gain.n > 300 * U
    THEN Raise("ValueError", "em_gain")
    ELSE NoError

CheckEmGainOld(em_mode, em_gain) ==
    IF PyEq(em_mode, PyInt(0))
    THEN IF ~PyEq(em_gain, PyInt(1)) THEN Raise("ValueError", "em_gain") ELSE NoError
    ELSE IF ~IsNum(em_gain) THEN Raise("TypeError", "em_gain")
    ELSE IF em_gain.n < 2 * U \/ em_gain.n > 300 * U
    THEN Raise("ValueError", "em_gain")
    ELSE NoError

CheckPreamp(preamp) ==
    IF ~PyIn(preamp, <<PyInt(1), PyInt(2)>>)
    THEN Raise("ValueError", "preamp") ELSE NoError

CheckHss(hss) ==
    IF ~PyIn(hss, <<PyFloat(U \div 10), PyInt(1), PyInt(10), PyInt(20), PyInt(30)>>)
    THEN Raise("ValueError", "hss") ELSE NoError

CheckBinn(binn) ==
    IF ~PyIn(binn, <<PyInt(1), PyInt(2)>>)
    THEN Raise("ValueError", "binn") ELSE NoError

\* 1e-5 is 10 millionths
CheckTExpNew(t_exp) ==
    IF ~TypeIsNumber(t_exp) THEN Raise("ValueError", "t_exp")
    ELSE IF t_exp.n < 10 THEN Raise("ValueError", "t_exp")
    ELSE NoError

CheckTExpOld(t_exp) ==
    IF ~IsNum(t_exp) THEN Raise("TypeError", "t_exp")
    ELSE IF t_exp.n < 10 THEN Raise("ValueError", "t_exp")
    ELSE NoError

\* a variant that lets a temperature out of range through, as if clipped
CheckCcdTempNewClipped(ccd_temp) ==
    IF ~TypeIsNumber(ccd_temp) THEN Raise("ValueError", "ccd_temp") ELSE NoError

CheckCcdTempNew(ccd_temp) ==
    IF ~TypeIsNumber(ccd_temp) THEN Raise("ValueError", "ccd_temp")
    ELSE IF ccd_temp.n < (0 - 80) * U \/ ccd_temp.n > 20 * U
    THEN Raise("ValueError", "ccd_temp")
    ELSE NoError

CheckCcdTempOld(ccd_temp) ==
    IF ~IsNum(ccd_temp) THEN Raise("TypeError", "ccd_temp")
    ELSE IF ccd_temp.n < (0 - 80) * U \/ ccd_temp.n > 20 * U
    THEN Raise("ValueError", "ccd_temp")
    ELSE NoError

\* _verify_ccd_operation_mode of Artificial_Image_Simulator
VerifyNew(m) ==
    LET keys == CheckKeysNew(m) IN
    IF keys # NoError THEN keys
    ELSE FirstError(<<CheckEmMode(m.val["em_mode"]),
                      CheckEmGainNew(m.val["em_mode"], m.val["em_gain"]),
                      CheckPreamp(m.val["preamp"]),
                      CheckHss(m.val["hss"]),
                      CheckBinn(m.val["binn"]),
                      CheckTExpNew(m.val["t_exp"]),
                      CheckCcdTempNew(m.val["ccd_temp"])>>)

\* _verify_ccd_operation_mode of Artificial_Images_Simulator
VerifyOld(m) ==
    LET keys == CheckKeysOld(m) IN
    IF keys # NoError THEN keys
    ELSE FirstError(<<CheckEmMode(m.val["em_mode"]),
                      CheckEmGainOld(m.val["em_mode"], m.val["em_gain"]),
                      CheckPreamp(m.val["preamp"]),
                      CheckHss(m.val["hss"]),
                      CheckBinn(m.val["bin"]),
                      CheckTExpOld(m.val["t_exp"]),
                      CheckCcdTempOld(m.val["ccd_temp"])>>)

(***************************************************************************)
(* The checks of the scalar parameters of __init__.                        *)
(***************************************************************************)
CheckStarFlux(v) ==
    IF ~TypeIsNumber(v) THEN Raise("ValueError", "star_flux")
    ELSE IF v.n <= 0 THEN Raise("ValueError", "star_flux")
    ELSE NoError

CheckSkyFlux(v) ==
    IF ~TypeIsNumber(v) THEN Raise("ValueError", "sky_flux")
    ELSE IF v.n <= 0 THEN Raise("ValueError", "sky_flux")
    ELSE NoError

CheckGaussianStd(v) ==
    IF v.ty # "int" THEN Raise("ValueError", "gaussian_std")
    ELSE IF v.n <= 0 THEN Raise("ValueError", "gaussian_std")
    ELSE NoError

\* a variant that tests a range, not the list
CheckChannelRange(v) ==
    IF IsNum(v) /\ v.n >= U THEN NoError ELSE Raise("ValueError", "channel")

CheckChannel(v) ==
    IF PyIn(v, <<PyInt(1), PyInt(2), PyInt(3), PyInt(4)>>)
    THEN NoError ELSE Raise("ValueError", "channel")

\* "elif bias_level <= 0: raise"
CheckBiasLevelNew(v) ==
    IF v.ty # "int" THEN Raise("ValueError", "bias_level")
    ELSE IF v.n <= 0 THEN Raise("ValueError", "bias_level")
    ELSE NoError

\* "elif bias_level >= 0: assign, else: raise"
CheckBiasLevelOld(v) ==
    IF v.ty # "int" THEN Raise("ValueError", "bias_level")
    ELSE IF v.n >= 0 THEN NoError
    ELSE Raise("ValueError", "bias_level")

CheckImageDir(v) ==
    IF v.ty # "str" THEN Raise("ValueError", "image_dir") ELSE NoError

\* a directory that does not end in a backslash gets one
NormalizeImageDir(v) ==
    IF v.s # <<>> /\ v.s[Len(v.s)] # "\\"
    THEN PyString(Append(v.s, "\\")) ELSE v

(***************************************************************************)
(* _configure_gain: the row of the calibration table, from the mode.       *)
(***************************************************************************)
\* a variant without the row of the EM mode at 1 MHz
TabBaseNoEm(hss, em_mode) ==
    IF PyEq(hss, PyFloat(U \div 10)) THEN 23
    ELSE IF PyEq(hss, PyInt(1)) THEN 19
    ELSE IF PyEq(hss, PyInt(10)) THEN 11
    ELSE IF PyEq(hss, PyInt(20)) THEN 7
    ELSE IF PyEq(hss, PyInt(30)) THEN 3
    ELSE 0

\* the if/elif chain over hss; 0 when no branch is taken
TabBase(hss, em_mode) ==
    IF PyEq(hss, PyFloat(U \div 10)) THEN 23
    ELSE IF PyEq(hss, PyInt(1)) THEN (IF PyEq(em_mode, PyInt(1)) THEN 15 ELSE 19)
    ELSE IF PyEq(hss, PyInt(10)) THEN 11
    ELSE IF PyEq(hss, PyInt(20)) THEN 7
    ELSE IF PyEq(hss, PyInt(30)) THEN 3
    ELSE 0

\* a variant that keeps the row found for the first object for every later one
TabIndexOfFirst(m) ==
    LET first == IF kept # <<>> THEN kept.dict ELSE m
    IN TabBase(first.val["hss"], first.val["em_mode"])
          + (IF PyEq(first.val["preamp"], PyInt(2)) THEN 2 ELSE 0)

TabIndex(m) ==
    TabBase(m.val["hss"], m.val["em_mode"])
        + (IF PyEq(m.val["preamp"], PyInt(2)) THEN 2 ELSE 0)

ConfigureGainError(m) ==
    IF TabBase(m.val["hss"], m.val["em_mode"]) = 0
    THEN Raise("ValueError", "readout_rate") ELSE NoError

\* spreadsheet.cell(row, 5).value of the workbook of a channel
Cell(channel, row, column) == [channel |-> channel, row |-> row, column |-> column]

(***************************************************************************)
(* _configure_image_name                                                   *)
(***************************************************************************)
ImageName(m, binnKey) ==
    (IF PyEq(m.val["em_mode"], PyInt(1)) THEN "EM" ELSE "CONV")
        \o "_HSS" \o PyStr(m.val["hss"])
        \o "_PA" \o PyStr(m.val["preamp"])
        \o "_B" \o PyStr(m.val[binnKey])
        \o "_TEXP" \o PyStr(m.val["t_exp"])
        \o "_G" \o PyStr(m.val["em_gain"])

(***************************************************************************)
(* Abstract_Channel_Creator.__init__(self, ccd_temp, sparc4_acquisition_   *)
(* mode): a call binds its positional arguments to the parameters, and an  *)
(* unbound parameter without a default is a TypeError.                     *)
(***************************************************************************)
ChannelInitParams == <<"ccd_temp", "sparc4_acquisition_mode">>

ChannelInitError(args) ==
    IF Len(args) # Len(ChannelInitParams)
    THEN Raise("TypeError", "CHC") ELSE NoError

ChannelId(channel) == channel.n \div U

\* get_channel_ID: f"Channel {self._CHANNEL_ID}"
ChannelName(channel_id) == "Channel " \o ToString(channel_id)
SerialNumber(channel) ==
    CASE PyEq(channel, PyInt(1)) -> 9914
      [] PyEq(channel, PyInt(2)) -> 9915
      [] PyEq(channel, PyInt(3)) -> 9916
      [] PyEq(channel, PyInt(4)) -> 9917
      [] OTHER -> 0

(***************************************************************************)
(* The statements of __init__, in program order.                           *)
(***************************************************************************)
\* a variant of the older revision that builds the channel before it verifies the mode
ProgramChannelFirst(r) ==
    IF r = "new"
    THEN <<"star_flux", "sky_flux", "gaussian_std", "channel", "bias_level",
           "image_dir", "verify", "gain", "image_name", "CHC", "PSF", "BGI", "HDR">>
    ELSE <<"star_flux", "sky_flux", "gaussian_std", "channel", "bias_level",
           "image_dir", "CHC", "verify", "PSF", "BGI", "HDR", "attributes">>

Program(r) ==
    IF r = "new"
    THEN <<"star_flux", "sky_flux", "gaussian_std", "channel", "bias_level",
           "image_dir", "verify", "gain", "image_name", "CHC", "PSF", "BGI", "HDR">>
    ELSE <<"star_flux", "sky_flux", "gaussian_std", "verify", "channel",
           "bias_level", "image_dir", "CHC", "PSF", "BGI", "HDR", "attributes">>

NextStmt(r, stmt) ==
    LET prog == Program(r)
        i == CHOOSE k \in 1..Len(prog) : prog[k] = stmt
    IN IF i = Len(prog) THEN "done" ELSE prog[i + 1]

(***************************************************************************)
(* The calls explored.  MaxChannel bounds the channel numbers tried.       *)
(***************************************************************************)
MaxChannel == 5

DefaultBiasLevel == 500

Revisions == {"new", "old"}

\* the key of the binning in each revision's keyword list
BinnKey(r) == IF r = "new" THEN "binn" ELSE "bin"

Declared(binnKey) ==
    <<"em_mode", "em_gain", "preamp", "hss", binnKey, "t_exp", "ccd_temp">>
Sorted(binnKey) ==
    <<binnKey, "ccd_temp", "em_gain", "em_mode", "hss", "preamp", "t_exp">>
Reversed(binnKey) ==
    <<"ccd_temp", "t_exp", binnKey, "hss", "preamp", "em_gain", "em_mode">>

Without(keys, k) == SelectSeq(keys, LAMBDA x : x # k)

KeySeqs ==
    LET orders == UNION {{Declared(b), Sorted(b), Reversed(b)} : b \in {"binn", "bin"}}
        dropped == {Without(o, k) : o \in orders, k \in Range(Declared("binn")) \cup {"none"}}
    IN dropped \cup {<<"gain">> \o d : d \in dropped} \cup {Append(d, "gain") : d \in dropped}

\* a dict with the given keys; "gain" stands for a key that is no CCD parameter
MakeMode(keys, v) ==
    [keys |-> keys,
     val |-> [k \in Range(keys) |->
                 IF k \in {"bin", "binn"} THEN v.binn
                 ELSE IF k = "gain" THEN PyInt(1)
                 ELSE v[k]]]

ConvBase ==
    [em_mode |-> PyInt(0), em_gain |-> PyInt(1), preamp |-> PyInt(1), hss |-> PyInt(1),
     binn |-> PyInt(1), t_exp |-> PyInt(1), ccd_temp |-> PyInt(0 - 70)]
EmBase ==
    [em_mode |-> PyInt(1), em_gain |-> PyInt(2), preamp |-> PyInt(2), hss |-> PyInt(30),
     binn |-> PyInt(2), t_exp |-> PyFloat(U \div 2), ccd_temp |-> PyFloat((0 - 705) * (U \div 10))]

ModeValues ==
    [em_mode : {PyInt(0), PyInt(1), PyInt(2)},
     em_gain : {PyInt(1), PyFloat(3 * (U \div 2)), PyInt(2), PyInt(150), PyInt(300),
                PyInt(301), TypeObj("float")},
     preamp : {PyInt(1), PyInt(2), PyInt(3)},
     hss : {PyFloat(U \div 10), PyInt(1), PyInt(7), PyInt(10), PyInt(20), PyInt(30)},
     binn : {PyInt(1), PyInt(2), PyInt(3)},
     t_exp : {PyInt(1), PyFloat(10), PyFloat(5)},
     ccd_temp : {PyInt(0 - 81), PyInt(0 - 80), PyInt(20), PyInt(25)}]

\* one value of the conventional base mode replaced by a str
Mistyped ==
    {[ConvBase EXCEPT ![k] = PyString(<<"x">>)] : k \in Range(Declared("binn"))}

GoodScalars ==
    [star_flux |-> PyInt(100), sky_flux |-> PyInt(50), gaussian_std |-> PyInt(3),
     channel |-> PyInt(1), bias_level |-> PyInt(DefaultBiasLevel),
     image_dir |-> PyString(<<>>)]

ScalarValues ==
    [star_flux : {PyInt(100), PyInt(0), PyString(<<"a">>)},
     sky_flux : {PyFloat(U \div 2), PyFloat(0 - 1), PyString(<<"a">>)},
     gaussian_std : {PyInt(3), PyInt(0), PyFloat(3 * U)},
     channel : {PyInt(i) : i \in 0..MaxChannel},
     bias_level : {PyInt(DefaultBiasLevel), PyInt(0), PyInt(0 - 1), PyFloat(3 * (U \div 2))},
     image_dir : {PyString(<<>>), PyString(<<"o">>), PyString(<<"o", "\\">>), PyInt(7)}]

\* one scalar wrong at a time
FaultyScalars ==
    {[GoodScalars EXCEPT !.star_flux = PyInt(0)],
     [GoodScalars EXCEPT !.gaussian_std = PyFloat(3 * U)],
     [GoodScalars EXCEPT !.channel = PyInt(0)],
     [GoodScalars EXCEPT !.image_dir = PyInt(7)]}

Args(scalars, mode) ==
    [star_flux |-> scalars.star_flux, sky_flux |-> scalars.sky_flux,
     gaussian_std |-> scalars.gaussian_std, channel |-> scalars.channel,
     bias_level |-> scalars.bias_level, image_dir |-> scalars.image_dir,
     mode |-> mode]

Calls(r) ==
    {Args(GoodScalars, MakeMode(Declared(BinnKey(r)), v)) : v \in ModeValues \cup Mistyped}
    \cup {Args(GoodScalars, MakeMode(ks, v)) : ks \in KeySeqs, v \in {ConvBase, EmBase}}
    \cup {Args(sc, MakeMode(Declared(BinnKey(r)), v)) : sc \in ScalarValues, v \in {ConvBase, EmBase}}
    \cup {Args(sc, MakeMode(Declared(BinnKey(r)), v)) : sc \in FaultyScalars, v \in Mistyped}

(***************************************************************************)
(* State.  self maps the attributes assigned so far to their values; dict  *)
(* is the caller's mode dict, which the constructor receives by reference; *)
(* lookups lists the cells read from the calibration spreadsheet.          *)
(***************************************************************************)
Assign(obj, attr, value) == (attr :> value) @@ obj

Init ==
    /\ rev = "none"
    /\ call = <<>>
    /\ pc = "idle"
    /\ self = <<>>
    /\ err = NoError
    /\ lookups = <<>>
    /\ dict = <<>>
    /\ ret = NoReturn
    /\ effects = <<>>
    /\ kept = <<>>
    /\ chc = <<>>

\* the caller builds the arguments and calls the class
Construct ==
    /\ pc = "idle"
    /\ \E r \in Revisions : \E a \in Calls(r) :
          /\ rev' = r
          /\ call' = a
          /\ dict' = a.mode
          /\ pc' = Program(r)[1]
    /\ UNCHANGED <<self, err, lookups, ret, effects, kept, chc>>

\* a statement that checks, then assigns: it raises e, or leaves self as newSelf
Statement(stmt, e, newSelf) ==
    /\ pc = stmt
    /\ IF e # NoError
       THEN pc' = "raised" /\ err' = e /\ self' = self
       ELSE pc' = NextStmt(rev, stmt) /\ err' = err /\ self' = newSelf
    /\ UNCHANGED <<rev, call, dict, ret, effects, kept, chc>>

StarFlux ==
    /\ Statement("star_flux", CheckStarFlux(call.star_flux),
                 Assign(self, "star_flux", call.star_flux))
    /\ UNCHANGED lookups

SkyFlux ==
    /\ Statement("sky_flux", CheckSkyFlux(call.sky_flux),
                 Assign(self, "sky_flux", call.sky_flux))
    /\ UNCHANGED lookups

GaussianStd ==
    /\ Statement("gaussian_std", CheckGaussianStd(call.gaussian_std),
                 Assign(self, IF rev = "new" THEN "gaussian_std" ELSE "gaussian_stddev",
                        call.gaussian_std))
    /\ UNCHANGED lookups

Channel ==
    /\ Statement("channel", CheckChannel(call.channel),
                 Assign(self, "channel", call.channel))
    /\ UNCHANGED lookups

BiasLevel ==
    /\ Statement("bias_level",
                 IF rev = "new" THEN CheckBiasLevelNew(call.bias_level)
                 ELSE CheckBiasLevelOld(call.bias_level),
                 Assign(self, "bias_level", call.bias_level))
    /\ UNCHANGED lookups

ImageDir ==
    /\ Statement("image_dir", CheckImageDir(call.image_dir),
                 Assign(self, "image_dir", NormalizeImageDir(call.image_dir)))
    /\ UNCHANGED lookups

\* a variant whose loop over the keys deletes a key it does not know
ModeAfterVerifyPruned(r, m) ==
    LET known == IF r = "new" THEN Range(NewKeywords) ELSE Range(OldKeywords)
        keys == SelectSeq(m.keys, LAMBDA k : k \in known)
    IN [keys |-> keys, val |-> [k \in Range(keys) |-> m.val[k]]]

\* the dict after the method: it is subscripted and its keys are listed, and
\* sort() orders list(ccd_operation_mode.keys()), a copy
ModeAfterVerify(r, m) == m

\* the older revision stores the dict in self before it checks anything
VerifyMode ==
    /\ pc = "verify"
    /\ LET e == IF rev = "new" THEN VerifyNew(dict) ELSE VerifyOld(dict)
           obj == IF rev = "new" THEN self ELSE Assign(self, "ccd_operation_mode", dict)
       IN /\ self' = obj
          /\ IF e # NoError
             THEN pc' = "raised" /\ err' = e
             ELSE pc' = NextStmt(rev, "verify") /\ err' = err
    /\ dict' = ModeAfterVerify(rev, dict)
    /\ UNCHANGED <<rev, call, lookups, ret, effects, kept, chc>>

ConfigureGain ==
    /\ pc = "gain"
    /\ LET e == ConfigureGainError(dict)
           row == TabIndex(dict)
       IN IF e # NoError
          THEN pc' = "raised" /\ err' = e /\ UNCHANGED <<self, lookups>>
          ELSE /\ pc' = NextStmt(rev, "gain")
               /\ lookups' = Append(lookups, [channel |-> self["channel"], row |-> row])
               /\ self' = Assign(self, "ccd_gain", Cell(self["channel"], row, 5))
               /\ err' = err
    /\ UNCHANGED <<rev, call, dict, ret, effects, kept, chc>>

ConfigureImageName ==
    /\ Statement("image_name", NoError,
                 Assign(self, "image_name", ImageName(dict, "binn")))
    /\ UNCHANGED lookups

\* the channel classes of the older revision's tree take no argument
ChannelInitErrorOld(args) == NoError

\* the if/elif chain over channel; CHC stays 0 when no branch is taken
ConcreteChannel(channel) ==
    IF PyIn(channel, <<PyInt(1), PyInt(2), PyInt(3), PyInt(4)>>)
    THEN [channel_id |-> ChannelId(channel), serial_number |-> SerialNumber(channel)]
    ELSE [channel_id |-> 0, serial_number |-> 0]

CreateChannel ==
    /\ Statement("CHC",
                 IF rev = "new" THEN ChannelInitError(<<dict.val["ccd_temp"]>>)
                 ELSE ChannelInitErrorOld(<<>>),
                 Assign(self, "CHC", ConcreteChannel(call.channel)))
    /\ UNCHANGED lookups

PointSpreadFunction(r, obj, m) ==
    IF r = "new"
    THEN [CHC |-> obj["CHC"], mode |-> m, ccd_gain |-> obj["ccd_gain"],
          gaussian_std |-> obj["gaussian_std"]]
    ELSE [CHC |-> obj["CHC"]]

BackgroundImage(r, obj, m) ==
    IF r = "new"
    THEN [CHC |-> obj["CHC"], mode |-> m, ccd_gain |-> obj["ccd_gain"]]
    ELSE [CHC |-> obj["CHC"]]

Header(r, obj, m) ==
    IF r = "new"
    THEN [mode |-> m, ccd_gain |-> obj["ccd_gain"],
          serial_number |-> obj["CHC"].serial_number]
    ELSE [mode |-> m]

CreatePSF ==
    /\ Statement("PSF", NoError, Assign(self, "PSF", PointSpreadFunction(rev, self, dict)))
    /\ UNCHANGED lookups

CreateBGI ==
    /\ Statement("BGI", NoError, Assign(self, "BGI", BackgroundImage(rev, self, dict)))
    /\ UNCHANGED lookups

CreateHDR ==
    /\ Statement("HDR", NoError, Assign(self, "HDR", Header(rev, self, dict)))
    /\ UNCHANGED lookups

\* the older revision ends by clearing the derived attributes
InitialAttributes(obj) ==
    Assign(Assign(Assign(Assign(Assign(obj, "image_name", ""), "dark_current", PyInt(0)),
                         "read_noise", PyInt(0)), "gain", PyInt(0)), "hdr", <<>>)

ClearAttributes ==
    /\ Statement("attributes", NoError, InitialAttributes(self))
    /\ UNCHANGED lookups

\* the older revision's _configure_image_name, called on a constructed object
ConfigureImageNameOld ==
    /\ pc = "done"
    /\ rev = "old"
    /\ self' = Assign(self, "image_name", ImageName(self["ccd_operation_mode"], "bin"))
    /\ UNCHANGED <<rev, call, pc, err, lookups, dict, ret, effects, kept, chc>>

(***************************************************************************)
(* The methods of a constructed object.  What a collaborator's method      *)
(* gives back is held as the call that produced it.                        *)
(***************************************************************************)
MaxImages == 2

CallOn(component, method) == [on |-> component, method |-> method]

\* background + star_PSF, the sum of two arrays
PixelSum(a, b) == [op |-> "+", left |-> a, right |-> b]

\* create_artificial_image: three calls, then fits.writeto; create_image is "pass"
CreateImageEffects(r, obj) ==
    IF r = "new"
    THEN LET background == CallOn(obj["BGI"], "create_background_image")
             star_PSF == CallOn(obj["PSF"], "create_star_PSF")
             header == CallOn(obj["HDR"], "create_header")
         IN <<[op |-> "call", what |-> background],
              [op |-> "call", what |-> star_PSF],
              [op |-> "call", what |-> header],
              [op |-> "writeto",
               file |-> Join(obj["image_dir"].s) \o obj["image_name"] \o ".fits",
               data |-> PixelSum(background, star_PSF), header |-> header]>>
    ELSE <<>>

\* neither method has a return statement
CreateImageReturn(r, obj) ==
    Returned(IF r = "new" THEN "create_artificial_image" ELSE "create_image", None)

CreateImage ==
    /\ pc = "done"
    /\ Len(effects) < 4 * MaxImages
    /\ effects' = effects \o CreateImageEffects(rev, self)
    /\ ret' = CreateImageReturn(rev, self)
    /\ UNCHANGED <<rev, call, pc, self, err, lookups, dict, kept, chc>>

\* get_channel_ID of the object: that of its channel
GetChannelID ==
    /\ pc = "done"
    /\ ret' = Returned("get_channel_ID", ChannelName(self["CHC"].channel_id))
    /\ UNCHANGED <<rev, call, pc, self, err, lookups, dict, effects, kept, chc>>

\* the call is over: the error reaches the caller, or the caller drops the object
Return ==
    /\ pc \in {"done", "raised"}
    /\ rev' = "none"
    /\ call' = <<>>
    /\ pc' = "idle"
    /\ self' = <<>>
    /\ err' = NoError
    /\ lookups' = <<>>
    /\ dict' = <<>>
    /\ ret' = NoReturn
    /\ effects' = <<>>
    /\ UNCHANGED <<kept, chc>>

Next ==
    \/ Construct
    \/ StarFlux
    \/ SkyFlux
    \/ GaussianStd
    \/ Channel
    \/ BiasLevel
    \/ ImageDir
    \/ VerifyMode
    \/ ConfigureGain
    \/ ConfigureImageName
    \/ CreateChannel
    \/ CreatePSF
    \/ CreateBGI
    \/ CreateHDR
    \/ ClearAttributes
    \/ ConfigureImageNameOld
    \/ CreateImage
    \/ GetChannelID
    \/ Return

Spec == Init /\ [][Next]_vars

(***************************************************************************)
(* _configure_gain on its own: the method applied to any mode whose keys   *)
(* it reads, on an object whose scalar attributes are assigned.            *)
(***************************************************************************)
GainModes ==
    {MakeMode(Declared("binn"), [ConvBase EXCEPT !.em_mode = e, !.hss = h, !.preamp = p]) :
        e \in {PyInt(0), PyInt(1)},
        h \in {PyFloat(U \div 10), PyInt(1), PyFloat(U), PyInt(7), PyInt(10),
                PyFloat(10 * U), PyInt(20), PyInt(30), PyInt(0)},
        p \in {PyInt(1), PyInt(2), PyInt(3)}}

SelfAfterScalars(a) ==
    Assign(Assign(Assign(Assign(Assign(Assign(<<>>,
        "star_flux", a.star_flux), "sky_flux", a.sky_flux),
        "gaussian_std", a.gaussian_std), "channel", a.channel),
        "bias_level", a.bias_level), "image_dir", NormalizeImageDir(a.image_dir))

InitGain ==
    /\ rev = "new"
    /\ pc = "gain"
    /\ \E c \in 1..4 : \E m \in GainModes :
          /\ call = Args([GoodScalars EXCEPT !.channel = PyInt(c)], m)
          /\ dict = m
    /\ self = SelfAfterScalars(call)
    /\ err = NoError
    /\ lookups = <<>>
    /\ ret = NoReturn
    /\ effects = <<>>
    /\ kept = <<>>
    /\ chc = <<>>

NextGain == ConfigureGain

SpecGain == InitGain /\ [][NextGain]_vars

(***************************************************************************)
(* Two objects.  The caller keeps a constructed object and constructs      *)
(* another, and calls the methods of either; the program has one thread,   *)
(* so a call on one object runs between the calls on the other.            *)
(***************************************************************************)
PairModes ==
    {ConvBase, EmBase, [ConvBase EXCEPT !.hss = PyInt(30), !.preamp = PyInt(2)],
     [ConvBase EXCEPT !.hss = PyInt(7)]}

PairCalls(r) ==
    {Args([GoodScalars EXCEPT !.channel = PyInt(c), !.star_flux = f, !.image_dir = d],
          MakeMode(Declared(BinnKey(r)), v)) :
        c \in {1, 2}, f \in {PyInt(100), PyInt(0)},
        d \in {PyString(<<>>), PyString(<<"o">>)}, v \in PairModes}

ConstructPair ==
    /\ pc = "idle"
    /\ \E r \in Revisions : \E a \in PairCalls(r) :
          /\ rev' = r
          /\ call' = a
          /\ dict' = a.mode
          /\ pc' = Program(r)[1]
    /\ UNCHANGED <<self, err, lookups, ret, effects, kept, chc>>

Object == [rev |-> rev, call |-> call, self |-> self, dict |-> dict]

\* the caller keeps the object that it has constructed, and goes on
Keep ==
    /\ pc = "done"
    /\ kept = <<>>
    /\ kept' = Object
    /\ rev' = "none"
    /\ call' = <<>>
    /\ pc' = "idle"
    /\ self' = <<>>
    /\ dict' = <<>>
    /\ ret' = NoReturn
    /\ UNCHANGED <<err, lookups, effects, chc>>

\* the caller turns to the object that it kept: from the other object, or from none
Swap ==
    /\ pc = "done"
    /\ kept # <<>>
    /\ kept' = Object
    /\ rev' = kept.rev
    /\ call' = kept.call
    /\ self' = kept.self
    /\ dict' = kept.dict
    /\ ret' = NoReturn
    /\ UNCHANGED <<pc, err, lookups, effects, chc>>

Resume ==
    /\ pc = "idle"
    /\ kept # <<>>
    /\ kept' = <<>>
    /\ rev' = kept.rev
    /\ call' = kept.call
    /\ self' = kept.self
    /\ dict' = kept.dict
    /\ pc' = "done"
    /\ UNCHANGED <<err, lookups, ret, effects, chc>>

NextPair ==
    \/ ConstructPair
    \/ StarFlux
    \/ SkyFlux
    \/ GaussianStd
    \/ Channel
    \/ BiasLevel
    \/ ImageDir
    \/ VerifyMode
    \/ ConfigureGain
    \/ ConfigureImageName
    \/ CreateChannel
    \/ CreatePSF
    \/ CreateBGI
    \/ CreateHDR
    \/ ClearAttributes
    \/ ConfigureImageNameOld
    \/ CreateImage
    \/ GetChannelID
    \/ Return
    \/ Keep
    \/ Swap
    \/ Resume

SpecPair == Init /\ [][NextPair]_vars

(***************************************************************************)
(* Floats that the channels compute, held as m * 10^e with at most five    *)
(* digits in m.  The exponential is summed from its series in 32-bit       *)
(* integers, to about four significant digits.                             *)
(***************************************************************************)
Dec(m, e) == [m |-> m, e |-> e]

RECURSIVE Pow10(_)
Pow10(k) == IF k = 0 THEN 1 ELSE 10 * Pow10(k - 1)

RECURSIVE Norm(_)
Norm(d) == IF d.m >= 100000 THEN Norm(Dec(d.m \div 10, d.e + 1)) ELSE d

\* the digits after the point that the series carries, for an exponent X/10^4
SeriesDigits(X) == IF X > 90000 THEN 3 ELSE 5

\* t * X / (10^4 * k), the next term of the series, in parts that fit 32 bits
TermStep(t, X, k) ==
    (t * (X \div 10000) + (t \div 10000) * (X % 10000)
        + ((t % 10000) * (X % 10000)) \div 10000) \div k

RECURSIVE Series(_, _, _)
Series(t, X, k) == IF t = 0 THEN 0 ELSE t + Series(TermStep(t, X, k), X, k + 1)

\* num / den with k more decimal digits, by long division
RECURSIVE Quot(_, _, _)
Quot(num, den, k) ==
    IF k = 0 THEN num \div den
    ELSE (num \div den) * Pow10(k) + Quot((num % den) * 10, den, k - 1)

\* a * np.exp(x), for a in hundredths and x = X/10^4
TimesExp(a, X) ==
    IF X >= 0
    THEN LET E == Norm(Dec(Series(Pow10(SeriesDigits(X)), X, 1), 0 - SeriesDigits(X)))
         IN Norm(Dec(a * E.m, E.e - 2))
    ELSE LET E == Norm(Dec(Series(Pow10(SeriesDigits(0 - X)), 0 - X, 1),
                           0 - SeriesDigits(0 - X)))
         IN Norm(Dec(Quot(a * 100000, E.m, 1), 0 - 8 - E.e))

\* round(d, ndigits), in units of 10^-ndigits
Round(d, ndigits) ==
    LET k == 0 - ndigits - d.e
    IN IF k > 0 THEN (d.m + Pow10(k) \div 2) \div Pow10(k) ELSE d.m * Pow10(0 - k)

(***************************************************************************)
(* The channels of the CHC package.  Class 0 is Abstract_Channel_Creator,  *)
(* class k is Concrete_Channel_k.                                          *)
(***************************************************************************)
ChannelClasses == 0..4

\* a variant in which every class has the coefficients of channel 1
CoefficientsOfChannel1(k) == [a |-> 2466, b |-> 15, c |-> 29]

\* a: hundredths, b: 1e-4, c: hundredths
Coefficients(k) ==
    CASE k = 1 -> [a |-> 2466, b |-> 15, c |-> 29]
      [] k = 2 -> [a |-> 3526, b |-> 19, c |-> 31]
      [] k = 3 -> [a |-> 967, b |-> 12, c |-> 25]
      [] k = 4 -> [a |-> 592, b |-> 5, c |-> 18]

\* b*T**2 + c*T in units of 1e-4, for T in whole degrees
Exponent(k, T) == Coefficients(k).b * T * T + 100 * Coefficients(k).c * T

\* the abstract class returns the int 0
DarkCurrent(k, T) ==
    IF k = 0 THEN Dec(0, 0) ELSE TimesExp(Coefficients(k).a, Exponent(k, T))

(***************************************************************************)
(* Read_Noise_Calculation(mode, directory).calculate_read_noise(): the row *)
(* of the calibration table from (hss, em_mode, preamp), then the value of *)
(* that row for the binning.  The rows known are those of channel 1, in    *)
(* hundredths, for the 24 operation modes of the reference set.            *)
(***************************************************************************)
ReferenceRows ==
    (23 :> <<878, 884>>) @@ (25 :> <<346, 327>>) @@
    (19 :> <<667, 694>>) @@ (21 :> <<476, 479>>) @@
    (15 :> <<2464, 3376>>) @@ (17 :> <<1205, 1455>>) @@
    (11 :> <<8368, 8293>>) @@ (13 :> <<4171, 4182>>) @@
    (7 :> <<16006, 16198>>) @@ (9 :> <<6601, 7271>>) @@
    (3 :> <<26201, 27319>>) @@ (5 :> <<16925, 14359>>)

InReference(m) ==
    /\ m.preamp \in {PyInt(1), PyInt(2)} /\ m.binn \in {PyInt(1), PyInt(2)}
    /\ \/ m.em_mode = PyInt(0) /\ m.em_gain = PyInt(1)
             /\ m.hss \in {PyFloat(U \div 10), PyInt(1)}
       \/ m.em_mode = PyInt(1) /\ m.em_gain = PyInt(2)
             /\ m.hss \in {PyInt(1), PyInt(10), PyInt(20), PyInt(30)}

\* a value of the table that the reference set does not give
UnknownCell(directory, row) == [ty |-> "unknown", n |-> 0, s |-> <<directory, ToString(row)>>]

NoiseRow(m) ==
    TabBase(m.hss, m.em_mode) + (IF PyEq(m.preamp, PyInt(2)) THEN 2 ELSE 0)

ReadNoiseCalculation(m, directory) ==
    IF TabBase(m.hss, m.em_mode) = 0
    THEN [Raised("calculate_read_noise", Raise("ValueError", "readout_rate"))
             EXCEPT !.arg = m]
    ELSE ReturnedFor("calculate_read_noise", m,
            IF directory = "Channel 1" /\ InReference(m)
            THEN PyFloat(ReferenceRows[NoiseRow(m)][m.binn.n \div U] * (U \div 100))
            ELSE UnknownCell(directory, NoiseRow(m)))

\* a variant that names the directory after the abstract class
DirectoryOfBase(k) == ChannelName(0)

\* the directory of the calibration set: f'Channel {self._CHANNEL_ID}'
Directory(k) == ChannelName(k)

(***************************************************************************)
(* A channel built and used on its own.                                    *)
(***************************************************************************)
Temperatures == (0 - 80)..20

ChannelArgs ==
    {<<PyInt(T)>> : T \in Temperatures}
    \cup {<<PyInt(T), a>> : T \in Temperatures, a \in {"phot", "pol"}}

NoiseModes ==
    [em_mode : {PyInt(0), PyInt(1)}, em_gain : {PyInt(1), PyInt(2)},
     hss : {PyFloat(U \div 10), PyInt(1), PyInt(7), PyInt(10), PyInt(20), PyInt(30)},
     preamp : {PyInt(1), PyInt(2)}, binn : {PyInt(1), PyInt(2)}]

InitChannel ==
    /\ rev = "none"
    /\ call = <<>>
    /\ pc = "idle"
    /\ self = <<>>
    /\ err = NoError
    /\ lookups = <<>>
    /\ dict = <<>>
    /\ ret = NoReturn
    /\ effects = <<>>
    /\ kept = <<>>
    /\ chc = <<>>

\* Concrete_Channel_k(*args), or Abstract_Channel_Creator(*args)
NewChannel ==
    /\ chc = <<>>
    /\ \E k \in ChannelClasses : \E args \in ChannelArgs :
          IF ChannelInitError(args) # NoError
          THEN ret' = Raised("__init__", ChannelInitError(args)) /\ chc' = chc
          ELSE /\ ret' = Returned("__init__", None)
               /\ chc' = [class |-> k, ccd_temp |-> args[1],
                           sparc4_acquisition_mode |-> args[2]]
    /\ UNCHANGED <<rev, call, pc, self, err, lookups, dict, effects, kept>>

\* the concrete classes store the value in self.dark_current, the abstract one does not
CalculateDarkCurrent ==
    /\ chc # <<>>
    /\ LET value == DarkCurrent(chc.class, chc.ccd_temp.n \div U)
       IN /\ ret' = Returned("calculate_dark_current", value)
          /\ chc' = IF chc.class = 0 THEN chc ELSE Assign(chc, "dark_current", value)
    /\ UNCHANGED <<rev, call, pc, self, err, lookups, dict, effects, kept>>

CalculateReadNoise ==
    /\ chc # <<>>
    /\ \E m \in NoiseModes :
          LET RN == ReadNoiseCalculation(m, Directory(chc.class))
          IN /\ ret' = RN
             /\ chc' = IF RN.raised # NoError THEN chc
                        ELSE Assign(chc, "read_noise", RN.value)
    /\ UNCHANGED <<rev, call, pc, self, err, lookups, dict, effects, kept>>

ChannelGetID ==
    /\ chc # <<>>
    /\ ret' = Returned("get_channel_ID", ChannelName(chc.class))
    /\ UNCHANGED <<rev, call, pc, self, err, lookups, dict, effects, kept, chc>>

GetSerialNumber ==
    /\ chc # <<>>
    /\ ret' = Returned("get_serial_number", SerialNumber(PyInt(chc.class)))
    /\ UNCHANGED <<rev, call, pc, self, err, lookups, dict, effects, kept, chc>>

\* the caller drops the channel
DropChannel ==
    /\ chc # <<>>
    /\ chc' = <<>>
    /\ ret' = NoReturn
    /\ UNCHANGED <<rev, call, pc, self, err, lookups, dict, effects, kept>>

NextChannel ==
    \/ NewChannel
    \/ CalculateDarkCurrent
    \/ ChannelGetID
    \/ GetSerialNumber
    \/ DropChannel

SpecChannel == InitChannel /\ [][NextChannel]_vars

(***************************************************************************)
(* calculate_read_noise on a channel that the caller has built, called any *)
(* number of times with any modes.                                         *)
(***************************************************************************)
InitNoise ==
    /\ rev = "none"
    /\ call = <<>>
    /\ pc = "idle"
    /\ self = <<>>
    /\ err = NoError
    /\ lookups = <<>>
    /\ dict = <<>>
    /\ ret = Returned("__init__", None)
    /\ effects = <<>>
    /\ kept = <<>>
    /\ \E k \in ChannelClasses : \E a \in {"phot", "pol"} :
          chc = [class |-> k, ccd_temp |-> PyInt(0 - 70), sparc4_acquisition_mode |-> a]

NextNoise == CalculateReadNoise

SpecNoise == InitNoise /\ [][NextNoise]_vars

(***************************************************************************)
(* How far a call has come.                                                *)
(***************************************************************************)
ModeChecks ==
    {"keys_missing", "keys_extra", "em_mode", "em_gain", "preamp", "hss", "binn",
     "t_exp", "ccd_temp"}
ScalarChecks == {"star_flux", "sky_flux", "gaussian_std", "channel", "bias_level", "image_dir"}

\* the statement a check belongs to
StmtOf(at) ==
    IF at \in ModeChecks THEN "verify"
    ELSE IF at = "readout_rate" THEN "gain"
    ELSE at

Index(stmt) == CHOOSE k \in 1..Len(Program(rev)) : Program(rev)[k] = stmt

\* the index of the statement that runs next, or that raised
Pos ==
    IF pc = "done" THEN Len(Program(rev)) + 1
    ELSE IF pc = "raised" THEN Index(StmtOf(err.at))
    ELSE Index(pc)

InCall == pc # "idle"
Passed(stmt) == InCall /\ Pos > Index(stmt)
Failed(stmt) == pc = "raised" /\ StmtOf(err.at) = stmt
Decided(stmt) == Passed(stmt) \/ Failed(stmt)

Components == DOMAIN self \cap {"CHC", "PSF", "BGI", "HDR"}

(***************************************************************************)
(* What the documentation of the parameters allows.                        *)
(***************************************************************************)
NumberIn(v, lo, hi) == IsNum(v) /\ lo <= v.n /\ v.n <= hi
NumberAmong(v, values) == IsNum(v) /\ v.n \in values

GoodStarFlux(v) == IsNum(v) /\ v.n > 0
GoodSkyFlux(v) == IsNum(v) /\ v.n > 0
GoodStd(v) == v.ty = "int" /\ v.n > 0
GoodChannel(v) == NumberAmong(v, {U, 2 * U, 3 * U, 4 * U})
GoodBias(v) == v.ty = "int" /\ v.n >= 0
GoodDir(v) == v.ty = "str"

GoodEmMode(v) == NumberAmong(v, {0, U})
GoodPreamp(v) == NumberAmong(v, {U, 2 * U})
GoodHss(v) == NumberAmong(v, {U \div 10, U, 10 * U, 20 * U, 30 * U})
GoodBinn(v) == NumberAmong(v, {U, 2 * U})
GoodTExp(v) == IsNum(v) /\ v.n >= 10
GoodCcdTemp(v) == NumberIn(v, (0 - 80) * U, 20 * U)
EmGainInRange(v) == NumberIn(v, 2 * U, 300 * U)

\* the keys are the seven that the revision reads, in an order it accepts
KeysAccepted(r, m) ==
    IF r = "new"
    THEN Len(m.keys) = 7 /\ Range(m.keys) = Range(NewKeywords)
    ELSE m.keys = OldKeywords

ScalarsValid(a) ==
    /\ GoodStarFlux(a.star_flux) /\ GoodSkyFlux(a.sky_flux) /\ GoodStd(a.gaussian_std)
    /\ GoodChannel(a.channel) /\ GoodDir(a.image_dir)

\* every value of the mode but em_gain is valid
ModeValidButGain(r, m) ==
    /\ KeysAccepted(r, m)
    /\ GoodEmMode(m.val["em_mode"]) /\ GoodPreamp(m.val["preamp"])
    /\ GoodHss(m.val["hss"]) /\ GoodBinn(m.val[BinnKey(r)])
    /\ GoodTExp(m.val["t_exp"]) /\ GoodCcdTemp(m.val["ccd_temp"])

(***************************************************************************)
(* C1: with every other parameter valid, a mode with em_mode = 1 passes    *)
(* the validation if and only if em_gain is a number in [2, 300], and is   *)
(* rejected with a ValueError otherwise.                                   *)
(***************************************************************************)
C1_EmGainRange ==
    (/\ Decided("verify")
     /\ ScalarsValid(call) /\ ModeValidButGain(rev, dict)
     /\ dict.val["em_mode"].n = U)
    => /\ Passed("verify") <=> EmGainInRange(dict.val["em_gain"])
       /\ Failed("verify") => err.cls = "ValueError"

(***************************************************************************)
(* C2: a mode whose key set differs from {em_mode, em_gain, preamp, hss,   *)
(* binn, t_exp, ccd_temp} is rejected with a ValueError, and a mode with   *)
(* exactly these keys, in any order, is not rejected for its keys.         *)
(***************************************************************************)
SevenKeys == {"em_mode", "em_gain", "preamp", "hss", "binn", "t_exp", "ccd_temp"}

C2_KeySetFixed ==
    Decided("verify")
    => IF Range(dict.keys) # SevenKeys
       THEN Failed("verify") /\ err.cls = "ValueError"
       ELSE err.at \notin {"keys_missing", "keys_extra"}

(***************************************************************************)
(* C3: with every other parameter valid, a conventional mode (em_mode = 0) *)
(* with em_gain other than 1 is rejected with a ValueError raised by the   *)
(* EM-gain check, and with em_gain = 1 it passes the validation.           *)
(***************************************************************************)
C3_ConventionalGain ==
    (/\ Decided("verify")
     /\ ScalarsValid(call) /\ ModeValidButGain(rev, dict)
     /\ dict.val["em_mode"].n = 0)
    => IF NumberAmong(dict.val["em_gain"], {U})
       THEN Passed("verify")
       ELSE err = Raise("ValueError", "em_gain")

C3_Witness ==
    /\ Failed("verify") /\ err.at = "em_gain"
    /\ ScalarsValid(call) /\ ModeValidButGain(rev, dict)
    /\ dict.val["em_mode"].n = 0
    /\ dict.val["em_gain"] = PyFloat(3 * (U \div 2))

(***************************************************************************)
(* C4: the validation rejects every mode with preamp outside {1, 2}, hss   *)
(* outside {0.1, 1, 10, 20, 30}, binn outside {1, 2}, t_exp below 1e-5 or  *)
(* ccd_temp outside [-80, 20]; a range check raises only on a value out of *)
(* its range, so ccd_temp = -80, ccd_temp = 20 and t_exp = 1e-5 pass; and  *)
(* the dict is never written: it, and the reference the older revision     *)
(* stores, hold the caller's values.                                       *)
(***************************************************************************)
BadValue(k, Good(_)) == HasKey(dict, k) /\ ~Good(dict.val[k])

C4_RejectNotClamp ==
    InCall =>
    /\ dict = call.mode
    /\ "ccd_operation_mode" \in DOMAIN self => self["ccd_operation_mode"] = call.mode
    /\ Decided("verify") =>
        /\ (\/ BadValue("preamp", GoodPreamp) \/ BadValue("hss", GoodHss)
            \/ BadValue("binn", GoodBinn) \/ BadValue("bin", GoodBinn)
            \/ BadValue("t_exp", GoodTExp) \/ BadValue("ccd_temp", GoodCcdTemp))
           => Failed("verify")
        /\ err.at = "t_exp" => ~GoodTExp(dict.val["t_exp"])
        /\ err.at = "ccd_temp" => ~GoodCcdTemp(dict.val["ccd_temp"])
        /\ (/\ ModeValidButGain(rev, dict)
            /\ dict.val["em_mode"].n = 0 /\ NumberAmong(dict.val["em_gain"], {U})
            /\ \/ dict.val["ccd_temp"].n \in {(0 - 80) * U, 20 * U}
               \/ dict.val["t_exp"].n = 10)
           => Passed("verify")

C4_Witness ==
    /\ Failed("verify") /\ err.at = "ccd_temp"
    /\ dict.val["ccd_temp"] = PyInt(25)
    /\ dict = call.mode

(***************************************************************************)
(* C5: bias_level is accepted exactly when it is a non-negative integer.   *)
(***************************************************************************)
C5_BiasNonNegative ==
    Decided("bias_level") => (Passed("bias_level") <=> GoodBias(call.bias_level))

(***************************************************************************)
(* C6: a call with star_flux or sky_flux non-numeric or <= 0, stddev not a *)
(* positive int, channel outside {1, 2, 3, 4} or image_dir not a str never *)
(* gets past the check of that parameter, so the construction never        *)
(* completes; the check of each of these parameters raises a ValueError,   *)
(* and raises only on such a value.                                        *)
(***************************************************************************)
C6_Rejected(stmt, good) ==
    /\ Passed(stmt) => good
    /\ Failed(stmt) => ~good /\ err.cls = "ValueError"

C7_ValidationFirst ==
    InCall =>
    /\ (lookups # <<>> \/ Components # {})
       => \A st \in ScalarChecks \cup {"verify"} : Passed(st)
    /\ (pc = "raised" /\ err.at \in ScalarChecks \cup ModeChecks)
       => lookups = <<>> /\ Components = {}

C7_Witness == lookups # <<>> /\ pc = "image_name"

(***************************************************************************)
(* C8: when a check of the constructor fails, no attribute of the object   *)
(* has been assigned.                                                      *)
(***************************************************************************)
C8_NoPartialState ==
    (pc = "raised" /\ err.at \in ScalarChecks \cup ModeChecks) => DOMAIN self = {}

(***************************************************************************)
(* C9: _configure_gain reads row 23 for hss = 0.1; 19 for hss = 1 in the   *)
(* conventional mode and 15 in the EM mode; 11 for hss = 10; 7 for         *)
(* hss = 20; 3 for hss = 30; two rows further when preamp = 2; for any     *)
(* other hss it raises a ValueError and reads nothing.                     *)
(***************************************************************************)
C9_Base(hss, em_mode) ==
    CASE hss.n = U \div 10 -> 23
      [] hss.n = U -> IF em_mode.n = U THEN 15 ELSE 19
      [] hss.n = 10 * U -> 11
      [] hss.n = 20 * U -> 7
      [] hss.n = 30 * U -> 3

C9_TableIndex ==
    pc # "gain" =>
    LET hss == dict.val["hss"]
        em_mode == dict.val["em_mode"]
        preamp == dict.val["preamp"]
    IN IF GoodHss(hss)
       THEN /\ err = NoError
            /\ Len(lookups) = 1
            /\ lookups[1].row = C9_Base(hss, em_mode) + (IF preamp.n = 2 * U THEN 2 ELSE 0)
            /\ self["ccd_gain"].row = lookups[1].row
       ELSE /\ pc = "raised" /\ err.cls = "ValueError"
            /\ lookups = <<>>
            /\ "ccd_gain" \notin DOMAIN self

C9_Witness ==
    /\ pc = "image_name" /\ Len(lookups) = 1 /\ lookups[1].row = 17
    /\ dict.val["em_mode"] = PyInt(1) /\ dict.val["preamp"] = PyInt(2)

(***************************************************************************)
(* C10: after every successful construction image_name is                  *)
(* {CONV|EM}_HSS{hss}_PA{preamp}_B{binn}_TEXP{t_exp}_G{em_gain}, from the  *)
(* validated mode.                                                         *)
(***************************************************************************)
C10_Expected ==
    LET v == call.mode.val IN
    (IF v["em_mode"].n = 0 THEN "CONV" ELSE "EM")
        \o "_HSS" \o PyStr(v["hss"]) \o "_PA" \o PyStr(v["preamp"])
        \o "_B" \o PyStr(v[BinnKey(rev)]) \o "_TEXP" \o PyStr(v["t_exp"])
        \o "_G" \o PyStr(v["em_gain"])

C10_ImageName ==
    pc = "done" => "image_name" \in DOMAIN self /\ self["image_name"] = C10_Expected

(***************************************************************************)
(* C11: create_artificial_image / create_image calls the background        *)
(* generator and the PSF generator once each, makes the image that is      *)
(* their pixel-wise sum, and returns that array together with the metadata *)
(* record to the caller.                                                   *)
(***************************************************************************)
C11_CallsOf(method) ==
    Cardinality({i \in 1..Len(effects) :
                    effects[i].op = "call" /\ effects[i].what.method = method})

C11_Synthesize ==
    (pc = "done" /\ ret.of \in {"create_artificial_image", "create_image"})
    => /\ ret.raised = NoError
       /\ C11_CallsOf("create_background_image") >= 1
       /\ C11_CallsOf("create_star_PSF") = C11_CallsOf("create_background_image")
       /\ ret.value # None
       /\ ret.value.image =
              PixelSum(CallOn(self["BGI"], "create_background_image"),
                       CallOn(self["PSF"], "create_star_PSF"))
       /\ "metadata" \in DOMAIN ret.value

(***************************************************************************)
(* C12: the selection of the channel is a mapping defined on {1, 2, 3, 4}: *)
(* for each of these channel_id k the selection gives the object the       *)
(* channel with id k and serial number 9913 + k, get_channel_ID reports    *)
(* channel k, and this identity never changes while the object lives; any  *)
(* other channel_id fails the construction with a ValueError and no        *)
(* channel object is created.                                              *)
(***************************************************************************)
C12_Id == call.channel.n \div U

C12_ChannelMapping ==
    InCall =>
    /\ (GoodChannel(call.channel) /\ Decided("CHC")) => Passed("CHC")
    /\ "CHC" \in DOMAIN self =>
          /\ C12_Id \in 1..4
          /\ self["CHC"] = [channel_id |-> C12_Id, serial_number |-> 9913 + C12_Id]
    /\ ret.of = "get_channel_ID" => ret.value = "Channel " \o ToString(C12_Id)
    /\ (~GoodChannel(call.channel) /\ Decided("channel")) =>
          /\ Failed("channel") /\ err.cls = "ValueError"
          /\ "CHC" \notin DOMAIN self

(***************************************************************************)
(* C13: for each of the 24 combinations of (em_mode, hss) in {(0, 0.1),    *)
(* (0, 1), (1, 1), (1, 10), (1, 20), (1, 30)}, preamp in {1, 2} and binn   *)
(* in {1, 2}, calculate_read_noise of channel 1 returns the reference      *)
(* value to two decimals, (0, 0.1, 1, 1) -> 8.78 and (1, 30, 2, 2) ->      *)
(* 143.59 among them, and a repeated call with the same mode returns the   *)
(* same value.                                                             *)
(***************************************************************************)
\* em_mode, hss in tenths, preamp, binn, read noise in hundredths
C13_Reference ==
    <<<<0, 1, 1, 1, 878>>, <<0, 1, 1, 2, 884>>, <<0, 1, 2, 1, 346>>, <<0, 1, 2, 2, 327>>,
      <<0, 10, 1, 1, 667>>, <<0, 10, 1, 2, 694>>, <<0, 10, 2, 1, 476>>, <<0, 10, 2, 2, 479>>,
      <<1, 10, 1, 1, 2464>>, <<1, 10, 1, 2, 3376>>, <<1, 10, 2, 1, 1205>>,
      <<1, 10, 2, 2, 1455>>,
      <<1, 100, 1, 1, 8368>>, <<1, 100, 1, 2, 8293>>, <<1, 100, 2, 1, 4171>>,
      <<1, 100, 2, 2, 4182>>,
      <<1, 200, 1, 1, 16006>>, <<1, 200, 1, 2, 16198>>, <<1, 200, 2, 1, 6601>>,
      <<1, 200, 2, 2, 7271>>,
      <<1, 300, 1, 1, 26201>>, <<1, 300, 1, 2, 27319>>, <<1, 300, 2, 1, 16925>>,
      <<1, 300, 2, 2, 14359>>>>

C13_Matches(m, i) ==
    /\ m.em_mode.n = C13_Reference[i][1] * U
    /\ m.em_gain.n = (1 + C13_Reference[i][1]) * U
    /\ m.hss.n = C13_Reference[i][2] * (U \div 10)
    /\ m.preamp.n = C13_Reference[i][3] * U
    /\ m.binn.n = C13_Reference[i][4] * U

C13_SameCall == ret.of = "calculate_read_noise" /\ ret'.of = ret.of /\ ret'.arg = ret.arg

C14_Coefficients == <<<<2466, 15, 29>>, <<3526, 19, 31>>, <<967, 12, 25>>, <<592, 5, 18>>>>

C14_Value(k, T) ==
    TimesExp(C14_Coefficients[k][1],
             C14_Coefficients[k][2] * T * T + C14_Coefficients[k][3] * 100 * T)

C14_DarkCurrent ==
    (chc # <<>> /\ ret.of = "calculate_dark_current" /\ chc.class \in 1..4)
    => LET T == chc.ccd_temp.n \div U IN
       /\ T \in (0 - 80)..20
       /\ ret.raised = NoError
       /\ ret.value = C14_Value(chc.class, T)
       /\ ret.value.m > 0
       /\ chc["dark_current"] = ret.value
       /\ (chc.class = 1 /\ T = 0 - 70) => Round(ret.value, 7) = 586

C14_Witness ==
    /\ chc # <<>> /\ ret.of = "calculate_dark_current"
    /\ chc.class = 1 /\ chc.ccd_temp = PyInt(0 - 70)
    /\ ret.value = Dec(58598, 0 - 9)

(***************************************************************************)
(* C15: the operation mode that the caller supplies is never mutated:      *)
(* during and after a construction, failed or not, and after any number of *)
(* create_image / create_artificial_image calls, the caller's dict has the *)
(* keys, in the order, and the values that it had before the call.         *)
(***************************************************************************)
C15_ModeUnchanged ==
    InCall =>
    /\ dict.keys = call.mode.keys
    /\ DOMAIN dict.val = DOMAIN call.mode.val
    /\ \A k \in DOMAIN dict.val : dict.val[k] = call.mode.val[k]

C15_Witness ==
    /\ pc = "done" /\ ret.of = "create_image"
    /\ dict.keys = OldKeywords
    /\ dict.val["hss"] = PyInt(30)

(***************************************************************************)
(* C16: no state is shared between two objects: whatever the order of the  *)
(* constructions and of the method calls on the two, the image_name, the   *)
(* conversion gain, the channel identity and the stored parameters of each *)
(* object are those that its own arguments give, as if it were the only    *)
(* object ever created.                                                    *)
(***************************************************************************)
C16_Name(r, a) ==
    LET v == a.mode.val IN
    (IF v["em_mode"].n = 0 THEN "CONV" ELSE "EM")
        \o "_HSS" \o PyStr(v["hss"]) \o "_PA" \o PyStr(v["preamp"])
        \o "_B" \o PyStr(v[BinnKey(r)]) \o "_TEXP" \o PyStr(v["t_exp"])
        \o "_G" \o PyStr(v["em_gain"])

C16_Row(a) ==
    C9_Base(a.mode.val["hss"], a.mode.val["em_mode"])
        + (IF a.mode.val["preamp"].n = 2 * U THEN 2 ELSE 0)

\* the value of an attribute of an object constructed alone with arguments a
C16_Alone(r, a, attr, value) ==
    CASE attr \in {"star_flux", "sky_flux", "channel", "bias_level"} -> value = a[attr]
      [] attr \in {"gaussian_std", "gaussian_stddev"} -> value = a.gaussian_std
      [] attr = "image_dir" ->
            value.s = IF a.image_dir.s = <<>> \/ a.image_dir.s[Len(a.image_dir.s)] = "\\"
                      THEN a.image_dir.s ELSE a.image_dir.s \o <<"\\">>
      [] attr = "ccd_operation_mode" -> value = a.mode
      [] attr = "ccd_gain" ->
            value = [channel |-> a.channel, row |-> C16_Row(a), column |-> 5]
      [] attr = "image_name" ->
            IF r = "new" THEN value = C16_Name(r, a) ELSE value \in {"", C16_Name(r, a)}
      [] attr = "CHC" ->
            /\ value.channel_id = a.channel.n \div U
            /\ value.serial_number = 9913 + value.channel_id
      [] OTHER -> TRUE

C16_Own(obj) ==
    \A attr \in DOMAIN obj.self : C16_Alone(obj.rev, obj.call, attr, obj.self[attr])

C16_NoSharedState ==
    /\ InCall => C16_Own(Object)
    /\ kept # <<>> => C16_Own(kept) /\ kept.dict = kept.call.mode

C16_Witness ==
    /\ kept # <<>> /\ pc = "done" /\ ret.of = "create_image"
    /\ kept.call.channel # call.channel
    /\ kept.call.mode # call.mode
    /\ kept.self["image_name"] # "" /\ self["image_name"] # ""
    /\ kept.self["image_name"] # self["image_name"]

(***************************************************************************)
(* C17: every mode that passes the validation of the mode, in either       *)
(* em_mode, resolves in _configure_gain to a table index in {3, 5, ...,    *)
(* 25}, so that the error for an unexpected readout rate is never raised   *)
(* after the validation; and each of the 12 indices is reached by a mode   *)
(* that the construction accepts: a mode within the documented domains, in *)
(* either em_mode, passes the validation and resolves to its index, 15 and *)
(* 17 for the EM mode at hss = 1.                                          *)
(***************************************************************************)
C17_Indices == {3, 5, 7, 9, 11, 13, 15, 17, 19, 21, 23, 25}

C17_Resolved == Passed("gain") /\ Len(lookups) = 1 /\ lookups[1].row \in C17_Indices

C17_InDomain(a) ==
    /\ ScalarsValid(a) /\ a.bias_level.ty = "int" /\ a.bias_level.n > 0
    /\ ModeValidButGain("new", a.mode)
    /\ IF a.mode.val["em_mode"].n = 0
       THEN NumberAmong(a.mode.val["em_gain"], {U})
       ELSE EmGainInRange(a.mode.val["em_gain"])

C17_GainResolves ==
    (rev = "new" /\ InCall) =>
    /\ (Passed("verify") /\ Decided("gain")) => C17_Resolved
    /\ err.at # "readout_rate"
    /\ (C17_InDomain(call) /\ pc \in {"raised", "done"})
       => C17_Resolved /\ lookups[1].row = C16_Row(call)

====
